---- MODULE Spec2Model ----
(***************************************************************************)
(* Model of run_weibo_search.py: the local web front end that compiles a   *)
(* form submission into a crawl directive, injects it into SearchSpider,   *)
(* runs the Scrapy engine synchronously inside the POST /run handler and   *)
(* then shuts the HTTP server down on a deferred timer.                    *)
(*                                                                         *)
(* A Python str is modelled as a sequence of one-character strings.        *)
(* TLA+ string literals are ASCII only, so the two characters of the       *)
(* region sentinel (the "all regions" name of line 135/160) are written    *)
(* "q" "b", and "j" stands for a character of any other region name.       *)
(***************************************************************************)
EXTENDS Integers, Sequences, FiniteSets, TLC

\* ------------------------------------------------------------------ bounds
\* longest keyword text enumerated
MaxTextLen == 6
\* longest single token enumerated for conv_token / restore_hashtag
MaxTokLen == 7
\* longest region field enumerated
MaxRegionLen == 4
\* connections clients open over the lifetime of the process
MaxRequests == 2
\* longest date field enumerated
MaxDateLen == 2
\* most entries enumerated in the artifact root
MaxEntries == 2

\* ------------------------------------------------------- Python str helpers
\* characters str.strip() / str.split() treat as whitespace
Whitespace == {" ", "\n", "\r", "\t"}

\* characters str.splitlines() treats as a line boundary
LineBreaks == {"\n", "\r"}

RECURSIVE LStrip(_)
LStrip(s) ==
    IF s = <<>> THEN <<>>
    ELSE IF Head(s) \in Whitespace THEN LStrip(Tail(s)) ELSE s

RECURSIVE RStrip(_)
RStrip(s) ==
    IF s = <<>> THEN <<>>
    ELSE IF s[Len(s)] \in Whitespace THEN RStrip(SubSeq(s, 1, Len(s) - 1)) ELSE s

\* str.strip()
Strip(s) == RStrip(LStrip(s))

\* str.splitlines(): cut at every line boundary, "\r\n" counting as one
\* boundary; no empty last line after a final boundary.
RECURSIVE SplitLinesFrom(_, _)
SplitLinesFrom(s, cur) ==
    IF s = <<>> THEN (IF cur = <<>> THEN <<>> ELSE <<cur>>)
    ELSE IF Head(s) = "\r" /\ Len(s) > 1 /\ s[2] = "\n"
         THEN <<cur>> \o SplitLinesFrom(Tail(Tail(s)), <<>>)
    ELSE IF Head(s) \in LineBreaks
         THEN <<cur>> \o SplitLinesFrom(Tail(s), <<>>)
    ELSE SplitLinesFrom(Tail(s), Append(cur, Head(s)))

SplitLines(s) == SplitLinesFrom(s, <<>>)

\* str.split() with no argument: maximal runs of non-whitespace
RECURSIVE SplitFrom(_, _)
SplitFrom(s, cur) ==
    IF s = <<>> THEN (IF cur = <<>> THEN <<>> ELSE <<cur>>)
    ELSE IF Head(s) \in Whitespace
         THEN (IF cur = <<>> THEN <<>> ELSE <<cur>>) \o SplitFrom(Tail(s), <<>>)
    ELSE SplitFrom(Tail(s), Append(cur, Head(s)))

Split(s) == SplitFrom(s, <<>>)

\* str.split(","): every piece between commas, empty pieces kept
RECURSIVE SplitCommaFrom(_, _)
SplitCommaFrom(s, cur) ==
    IF s = <<>> THEN <<cur>>
    ELSE IF Head(s) = ","
         THEN <<cur>> \o SplitCommaFrom(Tail(s), <<>>)
    ELSE SplitCommaFrom(Tail(s), Append(cur, Head(s)))

SplitComma(s) == SplitCommaFrom(s, <<>>)

\* s.startswith(p) / s.endswith(p)
StartsWith(s, p) == Len(s) >= Len(p) /\ SubSeq(s, 1, Len(p)) = p

EndsWith(s, p) == Len(s) >= Len(p) /\ SubSeq(s, Len(s) - Len(p) + 1, Len(s)) = p

\* needle in hay (substring test of line 208)
Contains(hay, needle) ==
    \E i \in 1..(Len(hay) + 1) :
        i + Len(needle) - 1 <= Len(hay) /\ SubSeq(hay, i, i + Len(needle) - 1) = needle

\* all sequences over alphabet A of length at most n
SeqsUpTo(A, n) == UNION {[1..k -> A] : k \in 0..n}

\* ------------------------------------------------- run_spider: compilation
\* the region sentinel of lines 134/135/160 (two characters)
SENTINEL == <<"q", "b">>

\* the reserved escape that stands for # (line 148)
ESCAPE == <<"%", "2", "3">>

\* fallback dates of lines 137/138 (one symbol stands for the literal)
START_FALLBACK == <<"2025-10-01">>

END_FALLBACK == <<"2025-10-28">>

\* dict.get(k, default)
Get(params, k, default) == IF k \in DOMAIN params THEN params[k] ELSE default

Tok(t) == [kind |-> "tok", tok |-> t]

Conj(ts) == [kind |-> "conj", toks |-> ts]

\* lines 129: a line of several tokens is a list (AND), of one token a str
ItemOfAlwaysList(tokens) == Conj(tokens)

ItemOf(tokens) == IF Len(tokens) > 1 THEN Conj(tokens) ELSE Tok(tokens[1])

\* lines 122-129: the loop over keywords_raw.splitlines()
RECURSIVE KeywordLoop(_)
KeywordLoop(lines) ==
    IF lines = <<>> THEN <<>>
    ELSE LET line == Strip(Head(lines))
             tokens == Split(line)
         IN  IF line = <<>> \/ tokens = <<>>
             THEN KeywordLoop(Tail(lines))
             ELSE <<ItemOf(tokens)>> \o KeywordLoop(Tail(lines))

\* lines 116-129: keyword_items
KeywordItems(params) ==
    LET keywords_raw == Strip(Get(params, "keywords", <<>>))
    IN  IF keywords_raw = <<>> THEN <<>> ELSE KeywordLoop(SplitLines(keywords_raw))

\* an encoding that leaves every token as it is
conv_token_noop(tok0) == Strip(tok0)

\* lines 145-149
conv_token(tok0) ==
    LET tok == Strip(tok0)
    IN  IF Len(tok) > 2 /\ tok[1] = "#" /\ tok[Len(tok)] = "#"
        THEN ESCAPE \o SubSeq(tok, 2, Len(tok) - 1) \o ESCAPE
        ELSE tok

\* lines 151-156: kw_conv
ConvItem(item) ==
    IF item.kind = "conj"
    THEN Conj([i \in 1..Len(item.toks) |-> conv_token(item.toks[i])])
    ELSE Tok(conv_token(item.tok))

KwConv(items) == [i \in 1..Len(items) |-> ConvItem(items[i])]

\* lines 200-203; s[3:-3] is empty when the two escapes overlap
restore_hashtag(s) ==
    IF StartsWith(s, ESCAPE) /\ EndsWith(s, ESCAPE)
    THEN <<"#">> \o SubSeq(s, 4, Len(s) - 3) \o <<"#">>
    ELSE s

\* int(str): optional surrounding whitespace, optional sign, decimal digits
Digits == {"0", "1", "2", "3", "4", "5", "6", "7", "8", "9"}

DigitVal(c) ==
    CASE c = "0" -> 0 [] c = "1" -> 1 [] c = "2" -> 2 [] c = "3" -> 3 [] c = "4" -> 4
      [] c = "5" -> 5 [] c = "6" -> 6 [] c = "7" -> 7 [] c = "8" -> 8 [] c = "9" -> 9

Unsigned(s) == IF s # <<>> /\ Head(s) \in {"+", "-"} THEN Tail(s) ELSE s

IsIntStr(s) ==
    LET u == Unsigned(Strip(s))
    IN  u # <<>> /\ \A i \in 1..Len(u) : u[i] \in Digits

RECURSIVE NatOf(_)
NatOf(u) == IF u = <<>> THEN 0 ELSE 10 * NatOf(SubSeq(u, 1, Len(u) - 1)) + DigitVal(u[Len(u)])

IntOf(s) ==
    LET t == Strip(s)
    IN  IF t # <<>> /\ Head(t) = "-" THEN 0 - NatOf(Unsigned(t)) ELSE NatOf(Unsigned(t))

\* lines 134-135: region_list
RECURSIVE StripNonEmpty(_)
StripNonEmpty(pieces) ==
    IF pieces = <<>> THEN <<>>
    ELSE IF Strip(Head(pieces)) # <<>>
         THEN <<Strip(Head(pieces))>> \o StripNonEmpty(Tail(pieces))
         ELSE StripNonEmpty(Tail(pieces))

RegionList(params) ==
    LET region_raw == Strip(Get(params, "region", SENTINEL))
        listed == StripNonEmpty(SplitComma(region_raw))
    IN  IF listed = <<>> THEN <<SENTINEL>> ELSE listed

\* line 160: the resolver is skipped for the list that is the sentinel alone
SkipsResolverNever(region_list) == FALSE

SkipsResolver(region_list) == Len(region_list) = 1 /\ region_list[1] = SENTINEL

\* weibo/utils/util.py (not among the sources): the lookup table and the
\* three converters, as section 4.2 describes them
RegionTable == {<<"j">>, <<"b", "j">>, <<"j", "j">>}

get_regions(region_list) ==
    {region_list[i] : i \in {k \in 1..Len(region_list) : region_list[k] \in RegionTable}}

convert_weibo_type(n) == <<"weibo_type", n>>

convert_contain_type(n) == <<"contain_type", n>>

\* a date that ignores what was submitted
DateOrAlwaysFallback(params, k, fallback) == fallback

\* lines 137-138: `params.get(k) or fallback`
DateOr(params, k, fallback) ==
    IF k \in DOMAIN params /\ params[k] # <<>> THEN params[k] ELSE fallback

\* lines 131-132: int() raises ValueError on a value that is no integer
CompileRaises(params) ==
    \/ ~IsIntStr(Get(params, "weibo_type", <<"0">>))
    \/ ~IsIntStr(Get(params, "contain_type", <<"0">>))

\* lines 116-160: everything run_spider computes before it touches the engine
Compile(params) ==
    LET keyword_items == KeywordItems(params)
        region_list == RegionList(params)
        skip == SkipsResolver(region_list)
    IN  [keyword_items |-> keyword_items,
         kw_conv |-> KwConv(keyword_items),
         weibo_type |-> convert_weibo_type(IntOf(Get(params, "weibo_type", <<"0">>))),
         contain_type |-> convert_contain_type(IntOf(Get(params, "contain_type", <<"0">>))),
         region_list |-> region_list,
         resolver_args |-> IF skip THEN <<>> ELSE <<region_list>>,
         regions_conv |-> IF skip THEN {} ELSE get_regions(region_list),
         start_date |-> DateOr(params, "start_date", START_FALLBACK),
         end_date |-> DateOr(params, "end_date", END_FALLBACK)]


\* ------------------------------------------- run_spider: artifact discovery
\* The artifact root after the crawl: kind "missing" (no such path), "file"
\* (exists, not a directory) or "dir" with its entries in iterdir() order;
\* an entry is [name, is_dir, csv], csv the *.csv files glob() finds in it.
Entry(name, is_dir, csv) == [name |-> name, is_dir |-> is_dir, csv |-> csv]

\* line 208: d.is_dir() and (prefer_name is None or prefer_name in d.name)
Matches(d, has_prefer, prefer_name) ==
    d.is_dir /\ (~has_prefer \/ Contains(d.name, prefer_name))

\* lines 207-210: index of the first matching entry, 0 when there is none
FirstMatch(entries, has_prefer, prefer_name) ==
    LET hits == {i \in 1..Len(entries) : Matches(entries[i], has_prefer, prefer_name)}
    IN  IF hits = {} THEN 0 ELSE CHOOSE i \in hits : \A j \in hits : i <= j

\* lines 212-214: index of the first directory, 0 when there is none
FirstDir(entries) ==
    LET dirs == {i \in 1..Len(entries) : entries[i].is_dir}
    IN  IF dirs = {} THEN 0 ELSE CHOOSE i \in dirs : \A j \in dirs : i <= j

\* lines 204: restore_hashtag(kw_conv[0]) calls str methods on kw_conv[0],
\* which is a list when the first line held several tokens: AttributeError
DiscoverRaises(kw_conv, root) ==
    root.kind = "dir" /\ kw_conv # <<>> /\ kw_conv[1].kind = "conj"

\* lines 216-218: the path handed to webbrowser.open_new; <<>> is "nothing found"
TargetOf(d) == IF d.csv # <<>> THEN <<d.name, d.csv[1]>> ELSE <<d.name>>

\* lines 191-223, for inputs on which it does not raise
Discover(kw_conv, root) ==
    IF root.kind # "dir" THEN <<>>
    ELSE LET has_prefer == kw_conv # <<>>
             prefer_name == IF has_prefer THEN restore_hashtag(kw_conv[1].tok) ELSE <<>>
             m == FirstMatch(root.entries, has_prefer, prefer_name)
             t == IF m # 0 THEN m ELSE FirstDir(root.entries)
         IN  IF t = 0 THEN <<>> ELSE TargetOf(root.entries[t])


\* ------------------------------------------------------ the running program
VARIABLES
    srv,               \* main(): "serving" in serve_forever's loop, "handling" a
                       \* request, "stopped" once serve_forever was left, "closed"
    shutdown_request,  \* the flag httpd.shutdown() sets, read by serve_forever
    interrupted,       \* a KeyboardInterrupt reached main()
    timers,            \* threading.Timer threads armed and not yet fired
    backlog,           \* accepted connections waiting for the single handler
    reqs,              \* every request ever sent, by id, with what became of it
    cur,               \* id of the request the handler is working on, 0 if none
    hpc,               \* where the handler stands in do_GET / do_POST / run_spider
    job,               \* run_spider's locals: params and the compiled values
    spider,            \* SearchSpider's class attributes and its settings
    resolver_log,      \* arguments of every util.get_regions call so far
    engine_active,     \* process.start() calls that have not returned
    engine_starts,     \* process.start() calls so far
    closes,            \* httpd.server_close() calls so far
    fn,                \* function-level runs: the function applied
    arg,               \* its input
    ret                \* its result, once applied

lvars == <<srv, shutdown_request, interrupted, timers, backlog, reqs, cur, hpc, job,
           spider, resolver_log, engine_active, engine_starts, closes>>

fvars == <<fn, arg, ret>>

vars == <<srv, shutdown_request, interrupted, timers, backlog, reqs, cur, hpc, job,
          spider, resolver_log, engine_active, engine_starts, closes, fn, arg, ret>>

\* the requests clients send: <<method, path>>
RequestKinds ==
    { <<"GET", "/">>, <<"GET", "/x">>, <<"POST", "/run">>, <<"POST", "/x">>,
      <<"PUT", "/run">> }

NoParams == [k \in {} |-> <<>>]

\* POST bodies a client sends: field -> text, an empty text for a field left blank
Bodies ==
    { [keywords |-> <<"a">>],
      [keywords |-> <<"a", " ", "b">>, region |-> SENTINEL],
      [keywords |-> <<"#", "a", "#">>, weibo_type |-> <<"1">>, region |-> <<"j">>],
      [keywords |-> <<>>, start_date |-> <<>>, region |-> <<" ">>],
      [keywords |-> <<"a">>, weibo_type |-> <<"x">>] }

\* states of the artifact root after a crawl
Roots ==
    { [kind |-> "missing", entries |-> <<>>],
      [kind |-> "dir", entries |-> <<>>],
      [kind |-> "dir", entries |-> <<Entry(<<"f">>, FALSE, <<>>)>>],
      [kind |-> "dir", entries |-> <<Entry(<<"A">>, TRUE, <<>>), Entry(<<"B">>, TRUE, <<>>)>>],
      [kind |-> "dir", entries |-> <<Entry(<<"B">>, TRUE, <<>>),
                                     Entry(<<"#", "a", "#">>, TRUE, <<"r.csv">>)>>] }

\* lines 248-249: parse_qs drops blank values; each field keeps its first value
ParseQs(body) == [k \in {f \in DOMAIN body : body[f] # <<>>} |-> body[k]]

\* weibo/settings.py lines 30-41, as SearchSpider reads them when it is defined
DEFAULT_KEYWORD_LIST == <<Tok(<<"d">>)>>

DEFAULT_REGIONS == {<<"*">>}

SpiderDefaults ==
    [keyword_list |-> DEFAULT_KEYWORD_LIST,
     KEYWORD_LIST |-> DEFAULT_KEYWORD_LIST,
     weibo_type |-> convert_weibo_type(1),
     contain_type |-> convert_contain_type(0),
     start_date |-> <<"2025-10-27">>,
     end_date |-> <<"2025-10-28">>,
     regions |-> DEFAULT_REGIONS,
     REGION |-> <<SENTINEL>>]

\* an injection that overwrites keywords and regions whatever was compiled
InjectIntoAlways(sp, d, writable) ==
    [sp EXCEPT !.keyword_list = d.kw_conv, !.KEYWORD_LIST = d.kw_conv,
               !.weibo_type = d.weibo_type, !.contain_type = d.contain_type,
               !.start_date = d.start_date, !.end_date = d.end_date,
               !.regions = d.regions_conv, !.REGION = d.region_list]

\* lines 163-182; `writable` is whether SearchSpider.settings.set succeeds
\* (its failure is swallowed by the try/except around it)
InjectInto(sp, d, writable) ==
    LET a == IF d.kw_conv # <<>>
             THEN [sp EXCEPT !.keyword_list = d.kw_conv,
                             !.KEYWORD_LIST = IF writable THEN d.kw_conv ELSE @]
             ELSE sp
        b == [a EXCEPT !.weibo_type = d.weibo_type,
                       !.contain_type = d.contain_type,
                       !.start_date = d.start_date,
                       !.end_date = d.end_date]
    IN  IF d.regions_conv # {}
        THEN [b EXCEPT !.regions = d.regions_conv,
                       !.REGION = IF writable THEN d.region_list ELSE @]
        ELSE b

NoJob == [params |-> NoParams, d |-> Compile(NoParams)]

NewRequest(m, p, active) ==
    [method |-> m, path |-> p, during_run |-> active, status |-> 0,
     engine |-> "none", exc |-> FALSE, done |-> FALSE, found |-> FALSE, art |-> <<>>,
     armed |-> FALSE]

\* run_spider is on the stack of the handler (lines 252, 110-227)
JobActive == cur # 0 /\ hpc \in {"run_spider", "inject", "start", "engine", "discover"}

LInit ==
    /\ srv = "serving"
    /\ shutdown_request = FALSE
    /\ interrupted = FALSE
    /\ timers = 0
    /\ backlog = <<>>
    /\ reqs = <<>>
    /\ cur = 0
    /\ hpc = "idle"
    /\ job = NoJob
    /\ spider = SpiderDefaults
    /\ resolver_log = <<>>
    /\ engine_active = 0
    /\ engine_starts = 0
    /\ closes = 0

Pending ==
    [done |-> FALSE, raised |-> FALSE, resolver_args |-> <<>>, v |-> <<>>, sp |-> <<>>]

FIdle == fn = "none" /\ arg = <<>> /\ ret = Pending

Init == LInit /\ FIdle

\* a client connects while the listening socket is open (lines 275, 290)
Submit(m, p) ==
    /\ srv # "closed"
    /\ Len(reqs) < MaxRequests
    /\ reqs' = Append(reqs, NewRequest(m, p, engine_active > 0))
    /\ backlog' = Append(backlog, Len(reqs) + 1)
    /\ UNCHANGED <<srv, shutdown_request, interrupted, timers, cur, hpc, job, spider,
                   resolver_log, engine_active, engine_starts>>
    /\ UNCHANGED closes
    /\ UNCHANGED fvars

\* a server that takes the next connection while a handler is still running
AcceptConcurrent ==
    /\ srv \in {"serving", "handling"}
    /\ ~shutdown_request
    /\ backlog # <<>>
    /\ cur' = Head(backlog)
    /\ backlog' = Tail(backlog)
    /\ srv' = "handling"
    /\ hpc' = "dispatch"
    /\ UNCHANGED <<shutdown_request, interrupted, timers, reqs, job, spider,
                   resolver_log, engine_active, engine_starts>>
    /\ UNCHANGED closes
    /\ UNCHANGED fvars

\* line 286: serve_forever takes the next connection unless shutdown was asked
Accept ==
    /\ srv = "serving"
    /\ ~shutdown_request
    /\ backlog # <<>>
    /\ cur' = Head(backlog)
    /\ backlog' = Tail(backlog)
    /\ srv' = "handling"
    /\ hpc' = "dispatch"
    /\ UNCHANGED <<shutdown_request, interrupted, timers, reqs, job, spider,
                   resolver_log, engine_active, engine_starts>>
    /\ UNCHANGED closes
    /\ UNCHANGED fvars

\* the handler returns (or its exception is absorbed by the server's request
\* loop, which closes the connection and goes on serving)
Finish(status, exc) ==
    /\ reqs' = [reqs EXCEPT ![cur].status = IF status = 0 THEN @ ELSE status,
                            ![cur].exc = exc,
                            ![cur].done = TRUE]
    /\ cur' = 0
    /\ hpc' = "idle"
    /\ job' = NoJob
    /\ srv' = "serving"

\* a form handler that starts the shutdown timer as do_POST does
DoGetFormArms ==
    /\ hpc = "dispatch"
    /\ reqs[cur].method = "GET" /\ reqs[cur].path = "/"
    /\ Finish(200, FALSE)
    /\ timers' = timers + 1
    /\ UNCHANGED <<shutdown_request, interrupted, backlog, spider,
                   resolver_log, engine_active, engine_starts>>
    /\ UNCHANGED closes
    /\ UNCHANGED fvars

\* lines 235-239
DoGetForm ==
    /\ hpc = "dispatch"
    /\ reqs[cur].method = "GET" /\ reqs[cur].path = "/"
    /\ Finish(200, FALSE)
    /\ UNCHANGED <<shutdown_request, interrupted, timers, backlog, spider,
                   resolver_log, engine_active, engine_starts>>
    /\ UNCHANGED closes
    /\ UNCHANGED fvars

\* a handler that serves the form whatever the path
DoNotFoundServesForm ==
    /\ hpc = "dispatch"
    /\ \/ reqs[cur].method = "GET" /\ reqs[cur].path # "/"
       \/ reqs[cur].method = "POST" /\ reqs[cur].path # "/run"
    /\ Finish(200, FALSE)
    /\ UNCHANGED <<shutdown_request, interrupted, timers, backlog, spider,
                   resolver_log, engine_active, engine_starts>>
    /\ UNCHANGED closes
    /\ UNCHANGED fvars

\* lines 240-241 and 267-268
DoNotFound ==
    /\ hpc = "dispatch"
    /\ \/ reqs[cur].method = "GET" /\ reqs[cur].path # "/"
       \/ reqs[cur].method = "POST" /\ reqs[cur].path # "/run"
    /\ Finish(404, FALSE)
    /\ UNCHANGED <<shutdown_request, interrupted, timers, backlog, spider,
                   resolver_log, engine_active, engine_starts>>
    /\ UNCHANGED closes
    /\ UNCHANGED fvars

\* line 231: BaseHTTPRequestHandler answers 501 for a method with no do_<METHOD>
DoUnsupported ==
    /\ hpc = "dispatch"
    /\ reqs[cur].method \notin {"GET", "POST"}
    /\ Finish(501, FALSE)
    /\ UNCHANGED <<shutdown_request, interrupted, timers, backlog, spider,
                   resolver_log, engine_active, engine_starts>>
    /\ UNCHANGED closes
    /\ UNCHANGED fvars

\* lines 244-252: read and decode the body, call run_spider
DoPostRead(body) ==
    /\ hpc = "dispatch"
    /\ reqs[cur].method = "POST" /\ reqs[cur].path = "/run"
    /\ job' = [params |-> ParseQs(body), d |-> Compile(NoParams)]
    /\ hpc' = "run_spider"
    /\ UNCHANGED <<srv, shutdown_request, interrupted, timers, backlog, reqs, cur,
                   spider, resolver_log, engine_active, engine_starts>>
    /\ UNCHANGED closes
    /\ UNCHANGED fvars

\* lines 116-160
RunCompile ==
    /\ hpc = "run_spider"
    /\ IF CompileRaises(job.params)
       THEN /\ Finish(0, TRUE)
            /\ UNCHANGED resolver_log
       ELSE /\ job' = [job EXCEPT !.d = Compile(job.params)]
            /\ resolver_log' = resolver_log \o Compile(job.params).resolver_args
            /\ hpc' = "inject"
            /\ UNCHANGED <<srv, reqs, cur>>
    /\ UNCHANGED <<shutdown_request, interrupted, timers, backlog, spider,
                   engine_active, engine_starts>>
    /\ UNCHANGED closes
    /\ UNCHANGED fvars

\* a handler that goes on to the engine without injecting the directive
InjectNothing(writable) ==
    /\ hpc = "inject"
    /\ hpc' = "start"
    /\ UNCHANGED <<srv, shutdown_request, interrupted, timers, backlog, reqs, cur, job,
                   spider, resolver_log, engine_active, engine_starts>>
    /\ UNCHANGED closes
    /\ UNCHANGED fvars

\* lines 163-182
Inject(writable) ==
    /\ hpc = "inject"
    /\ spider' = InjectInto(spider, job.d, writable)
    /\ hpc' = "start"
    /\ UNCHANGED <<srv, shutdown_request, interrupted, timers, backlog, reqs, cur, job,
                   resolver_log, engine_active, engine_starts>>
    /\ UNCHANGED closes
    /\ UNCHANGED fvars

\* lines 186-188: process.start() is entered
EngineStart ==
    /\ hpc = "start"
    /\ engine_active' = engine_active + 1
    /\ engine_starts' = engine_starts + 1
    /\ reqs' = [reqs EXCEPT ![cur].engine = "running"]
    /\ hpc' = "engine"
    /\ UNCHANGED <<srv, shutdown_request, interrupted, timers, backlog, cur, job, spider,
                   resolver_log>>
    /\ UNCHANGED closes
    /\ UNCHANGED fvars

\* line 188: process.start() returns
EngineReturn ==
    /\ hpc = "engine"
    /\ engine_active' = engine_active - 1
    /\ reqs' = [reqs EXCEPT ![cur].engine = "returned"]
    /\ hpc' = "discover"
    /\ UNCHANGED <<srv, shutdown_request, interrupted, timers, backlog, cur, job, spider,
                   resolver_log, engine_starts>>
    /\ UNCHANGED closes
    /\ UNCHANGED fvars

\* an engine exception that leaves serve_forever and ends main()
EngineRaiseFatal ==
    /\ hpc = "engine"
    /\ engine_active' = engine_active - 1
    /\ reqs' = [reqs EXCEPT ![cur].engine = "raised", ![cur].exc = TRUE, ![cur].done = TRUE]
    /\ cur' = 0
    /\ hpc' = "idle"
    /\ job' = NoJob
    /\ srv' = "stopped"
    /\ UNCHANGED <<shutdown_request, interrupted, timers, backlog, spider,
                   resolver_log, engine_starts>>
    /\ UNCHANGED closes
    /\ UNCHANGED fvars

\* line 188: process.start() raises; nothing in run_spider or do_POST catches it
EngineRaise ==
    /\ hpc = "engine"
    /\ engine_active' = engine_active - 1
    /\ reqs' = [reqs EXCEPT ![cur].engine = "raised", ![cur].exc = TRUE, ![cur].done = TRUE]
    /\ cur' = 0
    /\ hpc' = "idle"
    /\ job' = NoJob
    /\ srv' = "serving"
    /\ UNCHANGED <<shutdown_request, interrupted, timers, backlog, spider,
                   resolver_log, engine_starts>>
    /\ UNCHANGED closes
    /\ UNCHANGED fvars

\* lines 191-227: try/finally without except, so an exception leaves run_spider
DiscoverStep(root) ==
    /\ hpc = "discover"
    /\ IF DiscoverRaises(job.d.kw_conv, root)
       THEN Finish(0, TRUE)
       ELSE /\ reqs' = [reqs EXCEPT ![cur].found = TRUE,
                                    ![cur].art = Discover(job.d.kw_conv, root)]
            /\ hpc' = "respond"
            /\ UNCHANGED <<srv, cur, job>>
    /\ UNCHANGED <<shutdown_request, interrupted, timers, backlog, spider,
                   resolver_log, engine_active, engine_starts>>
    /\ UNCHANGED closes
    /\ UNCHANGED fvars

\* a handler that goes on to the timer without writing the response
RespondSkipped ==
    /\ hpc = "respond"
    /\ hpc' = "arm"
    /\ UNCHANGED <<srv, shutdown_request, interrupted, timers, backlog, reqs, cur, job,
                   spider, resolver_log, engine_active, engine_starts>>
    /\ UNCHANGED closes
    /\ UNCHANGED fvars

\* lines 255-258: the completion response is written to the socket
Respond ==
    /\ hpc = "respond"
    /\ reqs' = [reqs EXCEPT ![cur].status = 200]
    /\ hpc' = "arm"
    /\ UNCHANGED <<srv, shutdown_request, interrupted, timers, backlog, cur, job, spider,
                   resolver_log, engine_active, engine_starts>>
    /\ UNCHANGED closes
    /\ UNCHANGED fvars

\* lines 261-266: the timer is started, then do_POST returns
ArmTimer ==
    /\ hpc = "arm"
    /\ timers' = timers + 1
    /\ reqs' = [reqs EXCEPT ![cur].armed = TRUE, ![cur].done = TRUE]
    /\ cur' = 0
    /\ hpc' = "idle"
    /\ job' = NoJob
    /\ srv' = "serving"
    /\ UNCHANGED <<shutdown_request, interrupted, backlog, spider,
                   resolver_log, engine_active, engine_starts>>
    /\ UNCHANGED closes
    /\ UNCHANGED fvars

\* lines 261-264: the timer thread calls httpd.shutdown()
TimerFire ==
    /\ timers > 0
    /\ timers' = timers - 1
    /\ shutdown_request' = TRUE
    /\ UNCHANGED <<srv, interrupted, backlog, reqs, cur, hpc, job, spider,
                   resolver_log, engine_active, engine_starts>>
    /\ UNCHANGED closes
    /\ UNCHANGED fvars

\* line 286: serve_forever sees the flag between two requests and returns
ServeExit ==
    /\ srv = "serving"
    /\ shutdown_request
    /\ srv' = "stopped"
    /\ UNCHANGED <<shutdown_request, interrupted, timers, backlog, reqs, cur, hpc, job,
                   spider, resolver_log, engine_active, engine_starts>>
    /\ UNCHANGED closes
    /\ UNCHANGED fvars

\* a main() without its finally clause: the interrupt ends the process with
\* the socket still open
InterruptNoClose ==
    /\ srv \in {"serving", "handling"}
    /\ srv' = "dead"
    /\ interrupted' = TRUE
    /\ reqs' = IF cur = 0 THEN reqs
               ELSE [reqs EXCEPT ![cur].exc = TRUE, ![cur].done = TRUE,
                                 ![cur].engine = IF @ = "running" THEN "raised" ELSE @]
    /\ cur' = 0
    /\ hpc' = "idle"
    /\ job' = NoJob
    /\ engine_active' = 0
    /\ UNCHANGED <<shutdown_request, timers, backlog, spider, resolver_log, engine_starts>>
    /\ UNCHANGED closes
    /\ UNCHANGED fvars

\* lines 287-288: KeyboardInterrupt in the main thread, wherever it stands
Interrupt ==
    /\ srv \in {"serving", "handling"}
    /\ srv' = "stopped"
    /\ interrupted' = TRUE
    /\ reqs' = IF cur = 0 THEN reqs
               ELSE [reqs EXCEPT ![cur].exc = TRUE, ![cur].done = TRUE,
                                 ![cur].engine = IF @ = "running" THEN "raised" ELSE @]
    /\ cur' = 0
    /\ hpc' = "idle"
    /\ job' = NoJob
    /\ engine_active' = 0
    /\ UNCHANGED <<shutdown_request, timers, backlog, spider, resolver_log, engine_starts>>
    /\ UNCHANGED closes
    /\ UNCHANGED fvars

\* lines 289-290
ServerClose ==
    /\ srv = "stopped"
    /\ srv' = "closed"
    /\ closes' = closes + 1
    /\ UNCHANGED <<shutdown_request, interrupted, timers, backlog, reqs, cur, hpc, job,
                   spider, resolver_log, engine_active, engine_starts>>
    /\ UNCHANGED fvars

Next ==
    \/ \E k \in RequestKinds : Submit(k[1], k[2])
    \/ Accept
    \/ DoGetForm
    \/ DoNotFound
    \/ DoUnsupported
    \/ \E body \in Bodies : DoPostRead(body)
    \/ RunCompile
    \/ \E writable \in BOOLEAN : Inject(writable)
    \/ EngineStart
    \/ EngineReturn
    \/ EngineRaise
    \/ \E root \in Roots : DiscoverStep(root)
    \/ Respond
    \/ ArmTimer
    \/ TimerFire
    \/ ServeExit
    \/ Interrupt
    \/ ServerClose

Spec == Init /\ [][Next]_vars


\* ------------------------------------------- function-level specification
\* The compilation of one POST body and the token codec, over every input
\* up to the bounds.
KeywordChars == {"a", "#", " ", "\n", "\r"}

TokenChars == {"#", "%", "2", "3"}

RegionChars == {"q", "b", "j", ",", " "}

KeywordBodies == {[keywords |-> t] : t \in SeqsUpTo(KeywordChars, MaxTextLen)}

\* what the rest of the form holds while the region field varies
OtherFields ==
    { NoParams,
      [keywords |-> <<"a">>, weibo_type |-> <<"2">>, start_date |-> <<"d">>],
      [weibo_type |-> <<"x">>] }

RegionBodies ==
    OtherFields \cup
    {o @@ [region |-> t] : o \in OtherFields, t \in SeqsUpTo(RegionChars, MaxRegionLen)}

DateChars == {"2", "-"}

\* bodies whose two date fields are absent, blank or any short text
DateBodies ==
    {s @@ e : s \in {NoParams} \cup {[start_date |-> t] : t \in SeqsUpTo(DateChars, MaxDateLen)},
              e \in {NoParams} \cup {[end_date |-> t] : t \in SeqsUpTo(DateChars, MaxDateLen)}}

\* str.split() yields no empty token and no whitespace inside one
Tokens == SeqsUpTo(TokenChars, MaxTokLen) \ {<<>>}

\* names an entry of the artifact root may bear
EntryNames == {<<"a">>, <<"x", "#", "a", "#">>, <<"b">>}

\* files, directories without csv file, directories with csv files
Entries ==
    {Entry(n, TRUE, c) : n \in EntryNames,
                         c \in {<<>>, <<"r.csv">>, <<"s.csv", "r.csv">>}}
        \cup {Entry(n, FALSE, <<>>) : n \in EntryNames}

\* the artifact root after a crawl: missing, a plain file, or a directory
DiscoverRoots ==
    {[kind |-> k, entries |-> <<>>] : k \in {"missing", "file"}}
        \cup {[kind |-> "dir", entries |-> e] : e \in SeqsUpTo(Entries, MaxEntries)}

\* compiled expressions: empty, literal first, hashtag first, conjunction first
DiscoverKw ==
    {Compile([keywords |-> t]).kw_conv :
        t \in {<<>>, <<"a">>, <<"#", "a", "#">>, <<"c">>, <<"a", " ", "b">>,
               <<"b", "\n", "a", " ", "a">>}}

FnInit ==
    /\ LInit
    /\ ret = Pending
    /\ \/ fn = "compile" /\ arg \in KeywordBodies \cup RegionBodies \cup DateBodies
       \/ fn = "token" /\ arg \in Tokens
       \/ fn = "discover" /\ arg \in [kw_conv : DiscoverKw, root : DiscoverRoots]

\* lines 248-252 and 116-182 on the body `arg`, SearchSpider as first defined
ApplyCompile ==
    /\ fn = "compile" /\ ~ret.done
    /\ LET params == ParseQs(arg)
       IN  ret' = IF CompileRaises(params)
                  THEN [done |-> TRUE, raised |-> TRUE, resolver_args |-> <<>>, v |-> <<>>,
                        sp |-> [w \in BOOLEAN |-> SpiderDefaults]]
                  ELSE [done |-> TRUE, raised |-> FALSE,
                        resolver_args |-> Compile(params).resolver_args,
                        v |-> Compile(params),
                        sp |-> [w \in BOOLEAN |->
                                   InjectInto(SpiderDefaults, Compile(params), w)]]
    /\ UNCHANGED <<fn, arg>>
    /\ UNCHANGED lvars

\* lines 145-149 followed by lines 200-203 on the token `arg`
ApplyToken ==
    /\ fn = "token" /\ ~ret.done
    /\ ret' = [done |-> TRUE, raised |-> FALSE, resolver_args |-> <<>>,
               v |-> [enc |-> conv_token(arg), dec |-> restore_hashtag(conv_token(arg))],
               sp |-> <<>>]
    /\ UNCHANGED <<fn, arg>>
    /\ UNCHANGED lvars

\* lines 191-227 on the compiled expression and artifact root of `arg`
ApplyDiscover ==
    /\ fn = "discover" /\ ~ret.done
    /\ ret' = IF DiscoverRaises(arg.kw_conv, arg.root)
              THEN [done |-> TRUE, raised |-> TRUE, resolver_args |-> <<>>, v |-> <<>>,
                    sp |-> <<>>]
              ELSE [done |-> TRUE, raised |-> FALSE, resolver_args |-> <<>>,
                    v |-> Discover(arg.kw_conv, arg.root), sp |-> <<>>]
    /\ UNCHANGED <<fn, arg>>
    /\ UNCHANGED lvars

FNext == ApplyCompile \/ ApplyToken \/ ApplyDiscover

SpecFn == FnInit /\ [][FNext]_vars

\* ------------------------------------------------------------------ claims
Compiled == fn = "compile" /\ ret.done /\ ~ret.raised

\* the keyword text as the client sent it
KwText == IF "keywords" \in DOMAIN arg THEN arg.keywords ELSE <<>>

\* positions i..j of t hold no line boundary
SameLine(t, i, j) == \A k \in i..j : t[k] \notin LineBreaks

\* position i holds the first non-blank character of its line
LineStart(t, i) ==
    /\ t[i] \notin Whitespace
    /\ \A j \in 1..(i - 1) : SameLine(t, j, i) => t[j] \in Whitespace

\* position i holds the first character of a whitespace-separated token
TokenStart(t, i) == t[i] \notin Whitespace /\ (i = 1 \/ t[i - 1] \in Whitespace)

LineStarts(t) == {i \in 1..Len(t) : LineStart(t, i)}

\* the start of the k-th non-blank line
NthLine(t, k) == CHOOSE p \in LineStarts(t) : Cardinality({q \in LineStarts(t) : q < p}) = k - 1

\* the token starts of the line that starts at p
TokenStartsOfLine(t, p) == {i \in p..Len(t) : TokenStart(t, i) /\ SameLine(t, p, i)}

\* the token that starts at i: up to the next whitespace
TokenAt(t, i) ==
    LET ends == {j \in i..Len(t) : \A k \in i..j : t[k] \notin Whitespace}
    IN  SubSeq(t, i, CHOOSE j \in ends : \A k \in ends : k <= j)

NthToken(t, p, n) ==
    TokenAt(t, CHOOSE i \in TokenStartsOfLine(t, p) :
                   Cardinality({q \in TokenStartsOfLine(t, p) : q < i}) = n - 1)

\* C8: a keyword text with N non-blank lines compiles to exactly N elements in
\* line order; element k is a list of the line's tokens iff the line has more
\* than one whitespace-separated token, otherwise the line's single token.
C8_OneElementPerLine ==
    Compiled =>
        LET t == KwText
            items == ret.v.keyword_items
        IN  /\ Len(items) = Cardinality(LineStarts(t))
            /\ \A k \in 1..Len(items) :
                   LET p == NthLine(t, k)
                       n == Cardinality(TokenStartsOfLine(t, p))
                   IN  /\ items[k].kind = "conj" <=> n > 1
                       /\ items[k].kind = "conj" =>
                              /\ Len(items[k].toks) = n
                              /\ \A m \in 1..n : items[k].toks[m] = NthToken(t, p, m)
                       /\ items[k].kind = "tok" => items[k].tok = NthToken(t, p, 1)

\* C8 witness: a conjunction line, a blank line's worth of breaks and a bare line
C8_Witness ==
    /\ Compiled
    /\ KwText = <<"a", " ", "#", "\n", "\n", "a">>
    /\ Len(ret.v.keyword_items) = 2
    /\ ret.v.keyword_items[1].kind = "conj"
    /\ ret.v.keyword_items[2].kind = "tok"

\* C9: decoding the encoded form of any token gives the token back.
C9_RoundTrip ==
    (fn = "token" /\ ret.done) => ret.v.dec = arg

\* the body asks for no geographic filter: region absent, blank, or the
\* sentinel alone inside any whitespace
NoFilterAsked ==
    \/ "region" \notin DOMAIN arg
    \/ Strip(arg.region) = <<>>
    \/ Strip(arg.region) = SENTINEL

\* C10: a region field that is absent, empty, blank or the sentinel alone
\* resolves to the empty region set without any call of util.get_regions,
\* whatever the other fields are.
C10_SentinelMeansNoFilter ==
    (fn = "compile" /\ ret.done /\ NoFilterAsked) =>
        /\ ret.resolver_args = <<>>
        /\ ~ret.raised => ret.v.regions_conv = {} /\ ret.v.region_list = <<SENTINEL>>

\* C10 witness: the sentinel inside whitespace, next to other fields
C10_Witness ==
    /\ Compiled
    /\ "region" \in DOMAIN arg /\ arg.region = <<" ", "q", "b", " ">>
    /\ "keywords" \in DOMAIN arg
    /\ ret.v.regions_conv = {}
    /\ ret.resolver_args = <<>>


\* ------------------------------------------------- claims on the lifecycle
Ids == 1..Len(reqs)

IsRun(i) == reqs[i].method = "POST" /\ reqs[i].path = "/run"

IsForm(i) == reqs[i].method = "GET" /\ reqs[i].path = "/"

InBacklog(i) == \E k \in 1..Len(backlog) : backlog[k] = i

\* C1 as stated: a POST /run that arrives while a job session is active is
\* rejected, so it never starts an engine, and no two engine runs overlap.
C1_SecondSubmissionRejected ==
    /\ engine_active <= 1
    /\ \A i \in Ids : (IsRun(i) /\ reqs[i].during_run) => reqs[i].engine = "none"

\* The part of C1 that holds (mutual exclusion): no two engine runs are ever
\* active at once, and run_spider is never entered while a job session is
\* active; a request that arrives during a run is neither handled nor
\* answered before that run's handler is over.
C1_AtMostOneEngineRun ==
    /\ engine_active <= 1
    /\ \A i \in Ids : reqs[i].engine = "running" => (i = cur /\ engine_active = 1)
    /\ JobActive =>
           \A i \in Ids : (i # cur /\ ~reqs[i].done) =>
               InBacklog(i) /\ reqs[i].status = 0 /\ reqs[i].engine = "none"

\* the engine runs while a second POST /run waits in the backlog
C1_Witness ==
    /\ engine_active = 1
    /\ \E i \in Ids : IsRun(i) /\ reqs[i].during_run /\ InBacklog(i) /\ i # cur

\* C2: the engine is started for at most one job in the life of the process.
C2_SingleUse == engine_starts <= 1

\* a completion response has been written for request i
Completed(i) == IsRun(i) /\ reqs[i].status = 200

\* C3: the shutdown timer is armed only after the completion response was
\* written, and serve_forever is left on the timer's request only between
\* requests, with the completion response already written.
C3_ResponseBeforeTeardown ==
    /\ \A i \in Ids : reqs[i].armed => Completed(i)
    /\ hpc = "arm" => Completed(cur)
    /\ (timers > 0 \/ shutdown_request) => \E i \in Ids : reqs[i].armed
    /\ (srv \in {"stopped", "closed"} /\ ~interrupted) =>
           /\ cur = 0 /\ hpc = "idle"
           /\ \E i \in Ids : Completed(i) /\ reqs[i].armed

\* C3 witness: the socket was closed after the timer's shutdown
C3_Witness ==
    /\ srv = "closed" /\ ~interrupted
    /\ \E i \in Ids : Completed(i) /\ reqs[i].armed

\* C4: without an interrupt, every POST /run handler whose engine run returned
\* normally ends with the completion response sent and the timer armed.
C4_CompletesAfterNormalRun ==
    ~interrupted =>
        \A i \in Ids : (reqs[i].engine = "returned" /\ reqs[i].done) =>
            (reqs[i].status = 200 /\ reqs[i].armed)

\* C5: artifact discovery never raises: without an interrupt, every handler
\* whose engine run returned gets a discovery result and ends without exception.
C5_DiscoveryNeverRaises ==
    ~interrupted =>
        \A i \in Ids : (reqs[i].engine = "returned" /\ reqs[i].done) =>
            (reqs[i].found /\ ~reqs[i].exc)

C7_OthersAnswered404 ==
    \A i \in Ids : (reqs[i].done /\ ~reqs[i].exc /\ ~IsRun(i) /\ ~IsForm(i)) =>
        reqs[i].status = 404

\* the answer of the handler to a request that is no valid route
OtherStatus(i) == IF reqs[i].method \in {"GET", "POST"} THEN 404 ELSE 501

\* the handler finishes a request that is no valid route
OtherStep ==
    /\ hpc = "dispatch" /\ hpc' = "idle"
    /\ ~IsRun(cur) /\ ~IsForm(cur)
    /\ interrupted' = interrupted

\* C7 amended: a GET or POST to any other path is answered 404 and any other
\* method 501; handling it starts no engine, calls no resolver, leaves the
\* engine configuration alone, arms no timer and requests no shutdown.
C7_OthersChangeNothing ==
    /\ [](\A i \in Ids : (~IsRun(i) /\ ~IsForm(i)) =>
              /\ reqs[i].engine = "none" /\ ~reqs[i].armed /\ ~reqs[i].found
              /\ (reqs[i].done /\ ~reqs[i].exc) => reqs[i].status = OtherStatus(i))
    /\ [][OtherStep =>
              /\ reqs'[cur].status = OtherStatus(cur)
              /\ srv' = "serving"
              /\ <<spider, resolver_log, engine_active, engine_starts, timers,
                   shutdown_request, backlog>>' =
                 <<spider, resolver_log, engine_active, engine_starts, timers,
                   shutdown_request, backlog>>
              /\ \A i \in Ids : i # cur => reqs'[i] = reqs[i]]_vars

\* C7 witness: one request was answered 404 and another 501
C7_Witness ==
    \E i, j \in Ids : /\ reqs[i].status = 404 /\ reqs[i].path = "/x"
                      /\ reqs[j].status = 501 /\ reqs[j].method = "PUT"


\* C11: whenever util.get_regions is called, its argument holds no sentinel,
\* also for inputs that list the sentinel beside other names or repeat it.
C11_NoSentinelForwarded ==
    (fn = "compile" /\ ret.done) =>
        \A k \in 1..Len(ret.resolver_args) :
            \A m \in 1..Len(ret.resolver_args[k]) : ret.resolver_args[k][m] # SENTINEL

\* C12: a POST /run whose weibo_type or contain_type is no integer is answered
\* with a message: without an interrupt, a finished POST /run that never
\* started the engine has a response and ended without an exception.
C12_ValidationAnswered ==
    ~interrupted =>
        \A i \in Ids : (IsRun(i) /\ reqs[i].done /\ reqs[i].engine = "none") =>
            (reqs[i].status # 0 /\ ~reqs[i].exc)


\* the date the client sent in field k, <<>> when absent or left blank
SentDate(k) == IF k \in DOMAIN arg THEN arg[k] ELSE <<>>

\* C13: without date input the dates injected into SearchSpider are the two
\* fallback constants; each date falls back on its own; any non-empty date
\* reaches SearchSpider exactly as submitted.
C13_DateFallbacks ==
    Compiled =>
        \A w \in BOOLEAN :
            /\ ret.sp[w].start_date =
                   IF SentDate("start_date") = <<>> THEN <<"2025-10-01">>
                   ELSE SentDate("start_date")
            /\ ret.sp[w].end_date =
                   IF SentDate("end_date") = <<>> THEN <<"2025-10-28">>
                   ELSE SentDate("end_date")

\* C13 witness: a blank start date beside a malformed end date
C13_Witness ==
    /\ Compiled
    /\ "start_date" \in DOMAIN arg /\ arg.start_date = <<>>
    /\ "end_date" \in DOMAIN arg /\ arg.end_date = <<"-", "2">>
    /\ ret.sp[TRUE].start_date = START_FALLBACK
    /\ ret.sp[TRUE].end_date = <<"-", "2">>


\* the keyword field of the running job holds no token
JobHasNoKeyword ==
    LET t == Get(job.params, "keywords", <<>>)
    IN  \A k \in 1..Len(t) : t[k] \in Whitespace

\* the running job asks for no geographic filter
JobHasNoFilter ==
    \/ "region" \notin DOMAIN job.params
    \/ Strip(job.params.region) = <<>>
    \/ Strip(job.params.region) = SENTINEL

\* C14: a job without keyword tokens leaves SearchSpider.keyword_list and the
\* KEYWORD_LIST setting as they were; a job without geographic filter leaves
\* SearchSpider.regions and the REGION setting as they were and makes no call
\* of util.get_regions.
C14_DefaultsPreserved ==
    [][/\ (hpc = "inject" /\ JobHasNoKeyword) =>
              /\ spider'.keyword_list = spider.keyword_list
              /\ spider'.KEYWORD_LIST = spider.KEYWORD_LIST
       /\ (hpc = "inject" /\ JobHasNoFilter) =>
              /\ spider'.regions = spider.regions
              /\ spider'.REGION = spider.REGION
       /\ (hpc \in {"run_spider", "inject"} /\ JobHasNoFilter) =>
              resolver_log' = resolver_log]_vars

\* C14 witness: a blank job injected after an earlier job replaced the
\* keyword list and the regions
C14_Witness ==
    /\ hpc = "start"
    /\ JobHasNoKeyword /\ JobHasNoFilter
    /\ spider.keyword_list # DEFAULT_KEYWORD_LIST
    /\ spider.regions # DEFAULT_REGIONS
    /\ resolver_log # <<>>


\* main() reaches its finally clause once serve_forever has been left
SpecClose == Init /\ [][Next]_vars /\ WF_vars(ServerClose)

\* the job whose engine is running
Running == cur # 0 /\ reqs[cur].engine = "running"

\* C15: a KeyboardInterrupt makes main() leave serve_forever, and every way
\* out of serve_forever (the deferred shutdown or the interrupt) is followed by
\* exactly one server_close; while a job is running no step other than the
\* engine's own end or the interrupt ends it, whatever requests arrive.
C15_OrderlyClose ==
    /\ [](/\ closes <= 1
          /\ (srv = "closed") <=> (closes = 1)
          /\ interrupted => srv \in {"stopped", "closed"}
          /\ srv \in {"stopped", "closed"} => (interrupted \/ shutdown_request))
    /\ [][/\ srv = "stopped" => srv' \in {"stopped", "closed"}
          /\ srv = "closed" => srv' = "closed"
          /\ Running =>
                \/ /\ cur' = cur /\ job' = job /\ spider' = spider
                   /\ reqs'[cur].engine = "running" /\ engine_active' = engine_active
                \/ ~interrupted /\ interrupted'
                \/ /\ cur' = cur \/ cur' = 0
                   /\ reqs'[cur].engine \in {"returned", "raised"}
                   /\ Len(reqs') = Len(reqs) /\ backlog' = backlog]_vars
    /\ (srv = "stopped") ~> (srv = "closed" /\ closes = 1)

\* C15 witness: closed after an interrupt that came once a request had been
\* handled, with another request never served
C15_Witness ==
    /\ srv = "closed" /\ closes = 1 /\ interrupted /\ ~shutdown_request
    /\ \E i \in Ids : reqs[i].done /\ reqs[i].status = 200
    /\ backlog # <<>>


\* positions of the subdirectories of the artifact root
SubDirs ==
    IF arg.root.kind # "dir" THEN {}
    ELSE {i \in 1..Len(arg.root.entries) : arg.root.entries[i].is_dir}

\* the expression starts with a literal keyword
LeadingLiteral == arg.kw_conv # <<>> /\ arg.kw_conv[1].kind = "tok"

\* '#'-form of an encoded hashtag, the keyword itself otherwise
Restored(t) ==
    IF Len(t) >= 6 /\ SubSeq(t, 1, 3) = ESCAPE /\ SubSeq(t, Len(t) - 2, Len(t)) = ESCAPE
    THEN <<"#">> \o SubSeq(t, 4, Len(t) - 3) \o <<"#">>
    ELSE t

\* subdirectories whose name contains the leading literal keyword
Preferred ==
    IF LeadingLiteral
    THEN {i \in SubDirs : Contains(arg.root.entries[i].name, Restored(arg.kw_conv[1].tok))}
    ELSE {}

Least(S) == CHOOSE i \in S : \A j \in S : i <= j

\* the selection the rule prescribes, <<>> when there is no subdirectory
Selected ==
    IF SubDirs = {} THEN <<>>
    ELSE LET d == arg.root.entries[IF Preferred # {} THEN Least(Preferred) ELSE Least(SubDirs)]
         IN  IF d.csv # <<>> THEN <<d.name, d.csv[1]>> ELSE <<d.name>>

\* C16: discovery selects the first subdirectory whose name contains the
\* restored leading literal keyword, else (no match, empty expression or
\* leading conjunction) the first subdirectory; never a plain file; inside it
\* the first csv file, else the directory itself.
C16_ArtifactSelection ==
    (fn = "discover" /\ ret.done) => (~ret.raised /\ ret.v = Selected)

\* the part of C16 outside a leading conjunction
C16_SelectionUnlessConj ==
    (fn = "discover" /\ ret.done /\ ~ret.raised) => ret.v = Selected


\* what hashtag encoding makes of one token
Encoded(t) ==
    IF Len(t) >= 3 /\ t[1] = "#" /\ t[Len(t)] = "#"
    THEN <<"%", "2", "3">> \o [i \in 1..(Len(t) - 2) |-> t[i + 1]] \o <<"%", "2", "3">>
    ELSE t

\* C17: the compiled expression holds, line by line and token by token in
\* their order, the hashtag encoding of each token: first and last # replaced
\* by %23 when the token has at least 3 characters and # at both ends, the
\* token itself otherwise.
C17_EncodedInPlace ==
    Compiled =>
        LET t == KwText
            kw == ret.v.kw_conv
        IN  /\ Len(kw) = Cardinality(LineStarts(t))
            /\ \A k \in 1..Len(kw) :
                   LET p == NthLine(t, k)
                       n == Cardinality(TokenStartsOfLine(t, p))
                   IN  IF n > 1
                       THEN /\ kw[k].kind = "conj"
                            /\ Len(kw[k].toks) = n
                            /\ \A m \in 1..n : kw[k].toks[m] = Encoded(NthToken(t, p, m))
                       ELSE /\ kw[k].kind = "tok"
                            /\ kw[k].tok = Encoded(NthToken(t, p, 1))

\* C17 witness: one line with a hashtag and a token too short to be one
C17_Witness ==
    /\ Compiled
    /\ KwText = <<"#", "a", "#", " ", "#", "#">>
    /\ ret.v.kw_conv = <<Conj(<<<<"%", "2", "3", "a", "%", "2", "3">>, <<"#", "#">>>>)>>


\* SearchSpider carries the whole directive of the running job
Injected ==
    /\ job.d = Compile(job.params)
    /\ spider.weibo_type = job.d.weibo_type
    /\ spider.contain_type = job.d.contain_type
    /\ spider.start_date = job.d.start_date
    /\ spider.end_date = job.d.end_date
    /\ job.d.kw_conv # <<>> => spider.keyword_list = job.d.kw_conv
    /\ job.d.regions_conv # {} => spider.regions = job.d.regions_conv

\* C18: the engine starts and runs only with the directive compiled and
\* injected in full; the handler stays in process.start() until the engine
\* returns; discovery runs only after the engine returned; the completion
\* response is written only after discovery has finished.
C18_StepOrder ==
    /\ hpc \in {"start", "engine"} => Injected
    /\ engine_active > 0 => (hpc = "engine" /\ cur # 0 /\ reqs[cur].engine = "running")
    /\ hpc = "engine" => (engine_active = 1 /\ ~reqs[cur].found /\ reqs[cur].status = 0)
    /\ hpc \in {"run_spider", "inject", "start"} =>
           (reqs[cur].engine = "none" /\ ~reqs[cur].found /\ reqs[cur].status = 0)
    /\ hpc = "discover" =>
           (reqs[cur].engine = "returned" /\ ~reqs[cur].found /\ reqs[cur].status = 0)
    /\ hpc = "respond" =>
           (reqs[cur].engine = "returned" /\ reqs[cur].found /\ reqs[cur].status = 0)
    /\ \A i \in Ids :
           /\ reqs[i].found => reqs[i].engine = "returned"
           /\ (IsRun(i) /\ reqs[i].status = 200) => reqs[i].found

\* C18 witness: the engine runs on the directive of the third form, which
\* replaced category code, keyword list and regions
C18_Witness ==
    /\ hpc = "engine" /\ engine_active = 1
    /\ spider.weibo_type = convert_weibo_type(1)
    /\ spider.keyword_list = <<Tok(<<"%", "2", "3", "a", "%", "2", "3">>)>>
    /\ spider.regions = {<<"j">>}
    /\ \E w \in BOOLEAN : spider = InjectInto(SpiderDefaults, job.d, w)


\* request i is in the hands of a handler
Handling(i) == ~reqs[i].done /\ ~InBacklog(i)

\* request i has not been touched by any handler
Untouched(i) ==
    /\ InBacklog(i) /\ ~reqs[i].done /\ ~reqs[i].exc
    /\ reqs[i].status = 0 /\ reqs[i].engine = "none" /\ ~reqs[i].found /\ ~reqs[i].armed

\* C19: at most one request is in the hands of a handler, and it is the one
\* serve_forever dispatched; while it is handled (a running job included)
\* every other request is either finished or still waiting untouched; the
\* timer thread only sets the shutdown flag: it changes no request, no handler
\* position, no job and nothing of SearchSpider.
C19_OneHandlerAtATime ==
    /\ [](/\ \A i \in Ids : Handling(i) => (cur = i /\ srv = "handling" /\ hpc # "idle")
          /\ \A i \in Ids : (i # cur /\ ~reqs[i].done) => Untouched(i)
          /\ cur = 0 <=> hpc = "idle"
          /\ engine_active <= 1)
    /\ [][timers' < timers =>
              /\ shutdown_request'
              /\ UNCHANGED <<srv, backlog, reqs, cur, hpc, job, spider, resolver_log,
                             engine_active, engine_starts, closes>>]_vars

\* C19 witness: a job is running while another request waits
C19_Witness ==
    /\ hpc = "engine" /\ reqs[cur].engine = "running"
    /\ \E i \in Ids : i # cur /\ Untouched(i)


\* request i went the whole success path of POST /run
Succeeded(i) ==
    /\ IsRun(i) /\ reqs[i].engine = "returned" /\ reqs[i].found
    /\ reqs[i].status = 200 /\ ~reqs[i].exc

\* C20: only a POST /run whose engine returned, whose discovery ended and
\* whose 200 response was written arms the shutdown timer; a shutdown without
\* interrupt has such a request behind it; GET /, 404 answers and a POST /run
\* ended by an exception arm nothing, and as long as nothing is armed and no
\* interrupt came the server keeps serving.
C20_TimerOnlyOnSuccess ==
    /\ \A i \in Ids : reqs[i].armed => (Succeeded(i) /\ reqs[i].done)
    /\ \A i \in Ids :
           (reqs[i].done /\ (~IsRun(i) \/ reqs[i].exc \/ reqs[i].status # 200)) =>
               ~reqs[i].armed
    /\ (timers > 0 \/ shutdown_request) => \E i \in Ids : Succeeded(i) /\ reqs[i].armed
    /\ (srv \in {"stopped", "closed"} /\ ~interrupted) =>
           \E i \in Ids : Succeeded(i) /\ reqs[i].armed
    /\ (~interrupted /\ \A i \in Ids : ~reqs[i].armed) =>
           (srv \in {"serving", "handling"} /\ ~shutdown_request /\ timers = 0)

\* C20 witness: a form request and a job ended by an engine exception are
\* behind the server, which is serving with no timer armed
C20_Witness ==
    /\ srv = "serving" /\ ~interrupted /\ timers = 0 /\ ~shutdown_request
    /\ \E i \in Ids : IsForm(i) /\ reqs[i].done /\ reqs[i].status = 200
    /\ \E i \in Ids : IsRun(i) /\ reqs[i].done /\ reqs[i].exc /\ reqs[i].engine = "raised"


====
